---- MODULE Spec2Model ----
(***************************************************************************)
(* The signal-driven backtest of spot_analysis (src/duckweb/main.py,       *)
(* lines 1174-1360): one run of the bar loop for one risk-reward value,    *)
(* followed by the forced close and the summary row.                       *)
(*                                                                         *)
(* Numbers.  Prices are floats in the source.  Here every price-valued     *)
(* quantity is an integer count of 1/Unit of a tick, with Unit chosen so   *)
(* that a rolling mean over at most MaxPeriod bars and a product with a    *)
(* risk-reward value (a multiple of 0.5) are exact.  A float that may be   *)
(* NaN (an indicator value, sl, tgt) is <<>> for NaN and <<v>> for v;      *)
(* every comparison with NaN is FALSE, as in IEEE arithmetic.              *)
(*                                                                         *)
(* Input rows.  The close column and the indicator column are fixed in     *)
(* Init, because the signal column is computed from them before the loop.  *)
(* The open/high/low cells of row i are read by iteration i only, so they  *)
(* are drawn when iteration i reads them and kept in bar.                  *)
(***************************************************************************)
EXTENDS Integers, Sequences, FiniteSets, TLC

\* ------------------------------------------------------------------ bounds
MaxBars == 5
MaxPrice == 3
MaxPeriod == 2

\* the longest bar series of a run with the EMA
MaxBarsEma == 3

\* the longest bar series of a sweep over all risk-reward values
MaxBarsSweep == 4

\* the longest bar series of a run under the fairness condition
MaxBarsFair == 4

\* ------------------------------------------------------- number encoding
RECURSIVE Gcd(_, _)
Gcd(a, b) == IF b = 0 THEN a ELSE Gcd(b, a % b)

RECURSIVE LcmUpTo(_)
LcmUpTo(n) == IF n <= 1 THEN 1 ELSE (n * LcmUpTo(n - 1)) \div Gcd(n, LcmUpTo(n - 1))

Unit == 2 * LcmUpTo(MaxPeriod)

Prices == {p * Unit : p \in 1..MaxPrice}

NaN == <<>>

Num(v) == <<v>>

Min2(a, b) == IF a <= b THEN a ELSE b

Max2(a, b) == IF a >= b THEN a ELSE b

\* x > f, x <= f, x >= f for a number x and a float f that may be NaN
Gt(x, f) == f # NaN /\ x > f[1]

Le(x, f) == f # NaN /\ x <= f[1]

Ge(x, f) == f # NaN /\ x >= f[1]

\* ------------------------------------------------------------- the sweep
Until == "Until Opposite Signal"

rr_values == <<"1.0", "1.5", "2.0", "3.0", "4.0", "5.0", Until>>

\* twice the numeric risk-reward value
Twice(rr) ==
    CASE rr = "1.0" -> 2
      [] rr = "1.5" -> 3
      [] rr = "2.0" -> 4
      [] rr = "3.0" -> 6
      [] rr = "4.0" -> 8
      [] rr = "5.0" -> 10

VARIABLES
    indicator,      \* st.session_state['selected_indicator']
    period,         \* params['period']
    rr_ratio,       \* the risk-reward value of this run
    close,          \* df_bt['close'], indexed 0..N-1
    ind,            \* df_bt[f'sma_{period}'] / df_bt[f'ema_{period}']
    i,              \* the next index of "for i in range(1, len(df_bt))"
    pc,             \* "loop", "summary" or "done"
    bar,            \* the open/high/low of the row read by the last iteration
    branch,         \* the branch of the if/elif chain the last iteration took
    trades, in_trade, entry_idx, entry_price, direction, equity,
    closed_by,      \* history: the rule that appended each trade, in order
    sl, tgt,        \* as assigned by the last iteration that was in a trade
    results,        \* the row appended to results_list by the last summary
    df_rows,        \* df_bt's open/high/low columns when a sweep reads them again
                    \* and again; empty while each row is read by one iteration only
    results_list,   \* the summary rows of the configurations finished so far
    trades_by_rr,   \* trades_by_rr[str(rr_ratio)]
    opened          \* history: the positions this run has opened so far

vars == <<indicator, period, rr_ratio, close, ind, i, pc, bar, branch, trades,
          in_trade, entry_idx, entry_price, direction, equity, closed_by, sl, tgt,
          results, df_rows, results_list, trades_by_rr, opened>>

inputs == <<indicator, period, rr_ratio, close, ind, df_rows>>

None == "None"

N == Cardinality(DOMAIN close)

\* df_bt['datetime'].iloc[k]: ascending and unique, so the row index itself
datetime(k) == k

\* -------------------------------------------------------- the indicator
RECURSIVE SumClose(_, _, _)
SumClose(c, lo, hi) == IF lo > hi THEN 0 ELSE c[hi] + SumClose(c, lo, hi - 1)

\* df_bt['close'].rolling(window=p, min_periods=1).mean() at row k
RollingMean(c, p, k) ==
    LET lo == Max2(0, k - p + 1)
    IN  SumClose(c, lo, k) \div (k - lo + 1)

sma(c, p) == [k \in DOMAIN c |-> Num(RollingMean(c, p, k))]

\* ------------------------------------------------------------ the signal
\* mutant: a close equal to the indicator counts as Bullish
signalGe(k) == IF Ge(close[k], ind[k]) THEN "Bullish" ELSE "Bearish"

\* np.where(close > indicator, 'Bullish', 'Bearish')
signal(k) == IF Gt(close[k], ind[k]) THEN "Bullish" ELSE "Bearish"

\* df_bt['signal'].shift(1)
signal_prev(k) == IF k = 0 THEN "NaN" ELSE signal(k - 1)

\* mutant: the classification of every bar is a signal
crossEveryBar(k) == signal(k)

\* df_bt['ema_cross'] / df_bt['sma_cross']
cross(k) == IF signal(k) # signal_prev(k) /\ signal(k) # "NaN" THEN signal(k) ELSE None

\* ------------------------------------------------------------- the loop
\* mutant: the loop starts at the first row
FirstIndexZero == 1 - 1

\* the first index of "for i in range(1, len(df_bt))"
FirstIndex == 1

Init ==
    /\ indicator = "SMA"
    /\ period \in 1..MaxPeriod
    /\ rr_ratio \in {rr_values[k] : k \in DOMAIN rr_values}
    /\ \E n \in 0..MaxBars : close \in [0..(n - 1) -> Prices]
    /\ ind = sma(close, period)
    /\ i = FirstIndex
    /\ pc = "loop"
    /\ bar = <<>>
    /\ branch = None
    /\ trades = <<>>
    /\ in_trade = FALSE
    /\ entry_idx = None
    /\ entry_price = None
    /\ direction = None
    /\ equity = <<0>>
    /\ closed_by = <<>>
    /\ sl = NaN
    /\ tgt = NaN
    /\ results = <<>>
    /\ df_rows = <<>>
    /\ results_list = <<>>
    /\ trades_by_rr = <<>>
    /\ opened = 0

\* the series calculate_ema(c, p) can return: one value per bar, undefined on a
\* leading stretch of warm-up bars only
calculate_ema(c, p) ==
    {f \in [DOMAIN c -> {NaN} \cup {Num(v) : v \in Prices}] :
        \A k \in DOMAIN c : f[k] = NaN => \A j \in DOMAIN c : j < k => f[j] = NaN}

\* the state before the bar loop when the selected indicator is the EMA
InitEma ==
    /\ indicator = "EMA"
    /\ period \in 1..MaxPeriod
    /\ rr_ratio \in {rr_values[k] : k \in DOMAIN rr_values}
    /\ \E n \in 0..MaxBarsEma : close \in [0..(n - 1) -> Prices]
    /\ ind \in calculate_ema(close, period)
    /\ i = FirstIndex
    /\ pc = "loop"
    /\ bar = <<>>
    /\ branch = None
    /\ trades = <<>>
    /\ in_trade = FALSE
    /\ entry_idx = None
    /\ entry_price = None
    /\ direction = None
    /\ equity = <<0>>
    /\ closed_by = <<>>
    /\ sl = NaN
    /\ tgt = NaN
    /\ results = <<>>
    /\ df_rows = <<>>
    /\ results_list = <<>>
    /\ trades_by_rr = <<>>
    /\ opened = 0

\* the open/high/low cells row k can hold, given its close
RowsOf(c, k) ==
    {r \in [open : Prices, high : Prices, low : Prices] :
        /\ r.low <= Min2(r.open, c[k])
        /\ r.high >= Max2(r.open, c[k])}

\* the open/high/low cells iteration k reads from row k
Rows(k) == IF df_rows = <<>> THEN RowsOf(close, k) ELSE {df_rows[k]}

\* mutant: a fire met with a position open is not taken as a flip
flipNever(sig) == FALSE

flip(sig) ==
    \/ direction = "long" /\ sig = "Bearish"
    \/ direction = "short" /\ sig = "Bullish"

\* mutant: a trailing stop, the indicator value at the current bar
StopLevelTrailing == ind[i]

\* sl = df_bt[<indicator column>].iloc[entry_idx]
StopLevel == ind[entry_idx]

\* mutant: the distance is added to the stop instead of the entry price
TargetFromStop(s) ==
    LET m == IF rr_ratio # Until THEN Twice(rr_ratio) ELSE 0
    IN  IF s = NaN THEN NaN
        ELSE IF direction = "long"
             THEN Num(s[1] + (m * (entry_price - s[1])) \div 2)
             ELSE Num(s[1] - (m * (s[1] - entry_price)) \div 2)

\* mutant: a guard keeps the distance to the stop at one price step or more
TargetMinDistance(s) ==
    LET m == IF rr_ratio # Until THEN Twice(rr_ratio) ELSE 0
    IN  IF s = NaN THEN NaN
        ELSE IF direction = "long"
             THEN Num(entry_price + (m * Max2(Unit, entry_price - s[1])) \div 2)
             ELSE Num(entry_price - (m * Max2(Unit, s[1] - entry_price)) \div 2)

\* tgt = entry_price +/- (rr_ratio or 0) * distance to the stop
Target(s) ==
    LET m == IF rr_ratio # Until THEN Twice(rr_ratio) ELSE 0
    IN  IF s = NaN THEN NaN
        ELSE IF direction = "long"
             THEN Num(entry_price + (m * (entry_price - s[1])) \div 2)
             ELSE Num(entry_price - (m * (s[1] - entry_price)) \div 2)

\* mutant: the target rule ignores the hold-until-flip sentinel
BranchNoSentinel(sig, r) ==
    IF ~in_trade /\ sig \in {"Bullish", "Bearish"} THEN "entry"
    ELSE IF ~in_trade THEN "skip"
    ELSE IF flip(sig) THEN "flip"
    ELSE IF direction = "long" /\ Le(r.low, StopLevel) THEN "stop_long"
    ELSE IF direction = "short" /\ Ge(r.high, StopLevel) THEN "stop_short"
    ELSE IF direction = "long" /\ Ge(r.high, Target(StopLevel)) THEN "target_long"
    ELSE IF direction = "short" /\ Le(r.low, Target(StopLevel)) THEN "target_short"
    ELSE "hold"

\* mutant: the target is checked before the stop
BranchTargetFirst(sig, r) ==
    IF ~in_trade /\ sig \in {"Bullish", "Bearish"} THEN "entry"
    ELSE IF ~in_trade THEN "skip"
    ELSE IF flip(sig) THEN "flip"
    ELSE IF direction = "long" /\ rr_ratio # Until /\ Ge(r.high, Target(StopLevel))
         THEN "target_long"
    ELSE IF direction = "short" /\ rr_ratio # Until /\ Le(r.low, Target(StopLevel))
         THEN "target_short"
    ELSE IF direction = "long" /\ Le(r.low, StopLevel) THEN "stop_long"
    ELSE IF direction = "short" /\ Ge(r.high, StopLevel) THEN "stop_short"
    ELSE "hold"

\* mutant: a firing signal opens a position whether or not one is open
BranchEntryInTrade(sig, r) ==
    IF sig \in {"Bullish", "Bearish"} THEN "entry"
    ELSE IF ~in_trade THEN "skip"
    ELSE IF direction = "long" /\ Le(r.low, StopLevel) THEN "stop_long"
    ELSE IF direction = "short" /\ Ge(r.high, StopLevel) THEN "stop_short"
    ELSE IF direction = "long" /\ rr_ratio # Until /\ Ge(r.high, Target(StopLevel))
         THEN "target_long"
    ELSE IF direction = "short" /\ rr_ratio # Until /\ Le(r.low, Target(StopLevel))
         THEN "target_short"
    ELSE "hold"

\* mutant: the stop and the target need the bar to go beyond them
BranchStrict(sig, r) ==
    IF ~in_trade /\ sig \in {"Bullish", "Bearish"} THEN "entry"
    ELSE IF ~in_trade THEN "skip"
    ELSE IF flip(sig) THEN "flip"
    ELSE IF direction = "long" /\ StopLevel # NaN /\ r.low < StopLevel[1] THEN "stop_long"
    ELSE IF direction = "short" /\ StopLevel # NaN /\ r.high > StopLevel[1] THEN "stop_short"
    ELSE IF direction = "long" /\ rr_ratio # Until /\ Target(StopLevel) # NaN
            /\ r.high > Target(StopLevel)[1] THEN "target_long"
    ELSE IF direction = "short" /\ rr_ratio # Until /\ Target(StopLevel) # NaN
            /\ r.low < Target(StopLevel)[1] THEN "target_short"
    ELSE "hold"

\* the branch of the if/elif chain of lines 1222-1319 taken for row r
Branch(sig, r) ==
    IF ~in_trade /\ sig \in {"Bullish", "Bearish"} THEN "entry"
    ELSE IF ~in_trade THEN "skip"
    ELSE IF flip(sig) THEN "flip"
    ELSE IF direction = "long" /\ Le(r.low, StopLevel) THEN "stop_long"
    ELSE IF direction = "short" /\ Ge(r.high, StopLevel) THEN "stop_short"
    ELSE IF direction = "long" /\ rr_ratio # Until /\ Ge(r.high, Target(StopLevel))
         THEN "target_long"
    ELSE IF direction = "short" /\ rr_ratio # Until /\ Le(r.low, Target(StopLevel))
         THEN "target_short"
    ELSE "hold"

\* mutant: the points are recorded without their sign
TradeAbsPoints(exit_idx, exit_price, points) ==
    [entry_time |-> datetime(entry_idx), exit_time |-> datetime(exit_idx),
     direction |-> direction, entry_price |-> entry_price,
     exit_price |-> exit_price, points |-> IF points < 0 THEN -points ELSE points]

\* mutant: the two timestamps of a trade are exchanged
TradeTimesSwapped(exit_idx, exit_price, points) ==
    [entry_time |-> datetime(exit_idx), exit_time |-> datetime(entry_idx),
     direction |-> direction, entry_price |-> entry_price,
     exit_price |-> exit_price, points |-> points]

Trade(exit_idx, exit_price, points) ==
    [entry_time |-> datetime(entry_idx), exit_time |-> datetime(exit_idx),
     direction |-> direction, entry_price |-> entry_price,
     exit_price |-> exit_price, points |-> points]

Last(s) == s[Len(s)]

\* what every iteration does: read row i, note the branch, move to the next i
Iterate(r, b) ==
    /\ indicator # "MACD"
    /\ Branch(cross(i), r) = b
    /\ bar' = r
    /\ branch' = b
    /\ i' = i + 1
    /\ opened' = IF b \in {"entry", "flip"} THEN opened + 1 ELSE opened
    /\ UNCHANGED <<inputs, pc, results, results_list, trades_by_rr>>

\* mutant: the lists keep the latest trade only
CloseKeepsLatest(exit_idx, exit_price, points) ==
    /\ trades' = <<Trade(exit_idx, exit_price, points)>>
    /\ equity' = <<0, Last(equity) + points>>

\* mutant: the equity point is the trade's points, not the running sum
CloseNotCumulative(exit_idx, exit_price, points) ==
    /\ trades' = Append(trades, Trade(exit_idx, exit_price, points))
    /\ equity' = Append(equity, points)

\* trades.append({...}) and equity.append(equity[-1] + points)
Close(exit_idx, exit_price, points) ==
    /\ trades' = Append(trades, Trade(exit_idx, exit_price, points))
    /\ equity' = Append(equity, Last(equity) + points)

InTradeLocals ==
    /\ sl' = StopLevel
    /\ tgt' = Target(StopLevel)

\* mutant: a Bullish signal opens a Short and a Bearish signal a Long
EntryReversed ==
    /\ pc = "loop"
    /\ i < N
    /\ \E r \in Rows(i) :
        /\ Iterate(r, "entry")
        /\ entry_idx' = i
        /\ entry_price' = r.open
        /\ direction' = IF cross(i) = "Bullish" THEN "short" ELSE "long"
        /\ in_trade' = TRUE
        /\ UNCHANGED <<trades, equity, closed_by, sl, tgt>>

Entry ==
    /\ pc = "loop"
    /\ i < N
    /\ \E r \in Rows(i) :
        /\ Iterate(r, "entry")
        /\ entry_idx' = i
        /\ entry_price' = r.open
        /\ direction' = IF cross(i) = "Bullish" THEN "long" ELSE "short"
        /\ in_trade' = TRUE
        /\ UNCHANGED <<trades, equity, closed_by, sl, tgt>>

Skip ==
    /\ pc = "loop"
    /\ i < N
    /\ \E r \in Rows(i) :
        /\ Iterate(r, "skip")
        /\ UNCHANGED <<trades, equity, closed_by, sl, tgt, in_trade, entry_idx, entry_price, direction>>

\* mutant: the re-entry keeps the direction of the position it closed
FlipKeepsDirection ==
    /\ pc = "loop"
    /\ i < N
    /\ \E r \in Rows(i) :
        /\ Iterate(r, "flip")
        /\ InTradeLocals
        /\ Close(i, r.open, IF direction = "long" THEN r.open - entry_price
                                                  ELSE entry_price - r.open)
        /\ closed_by' = Append(closed_by, "flip")
        /\ entry_idx' = i
        /\ entry_price' = r.open
        /\ UNCHANGED <<in_trade, direction>>

\* mutant: the re-entry keeps the entry index of the position it closed
FlipKeepsEntryIdx ==
    /\ pc = "loop"
    /\ i < N
    /\ \E r \in Rows(i) :
        /\ Iterate(r, "flip")
        /\ InTradeLocals
        /\ Close(i, r.open, IF direction = "long" THEN r.open - entry_price
                                                  ELSE entry_price - r.open)
        /\ closed_by' = Append(closed_by, "flip")
        /\ entry_price' = r.open
        /\ direction' = IF cross(i) = "Bullish" THEN "long" ELSE "short"
        /\ UNCHANGED <<in_trade, entry_idx>>

Flip ==
    /\ pc = "loop"
    /\ i < N
    /\ \E r \in Rows(i) :
        /\ Iterate(r, "flip")
        /\ InTradeLocals
        /\ Close(i, r.open, IF direction = "long" THEN r.open - entry_price
                                                  ELSE entry_price - r.open)
        /\ closed_by' = Append(closed_by, "flip")
        /\ entry_idx' = i
        /\ entry_price' = r.open
        /\ direction' = IF cross(i) = "Bullish" THEN "long" ELSE "short"
        /\ UNCHANGED in_trade

\* mutant: a stopped Long is closed at the bar's low
StopLongAtLow ==
    /\ pc = "loop"
    /\ i < N
    /\ \E r \in Rows(i) :
        /\ Iterate(r, "stop_long")
        /\ InTradeLocals
        /\ Close(i, r.low, r.low - entry_price)
        /\ closed_by' = Append(closed_by, "stop")
        /\ in_trade' = FALSE
        /\ UNCHANGED <<entry_idx, entry_price, direction>>

StopLong ==
    /\ pc = "loop"
    /\ i < N
    /\ \E r \in Rows(i) :
        /\ Iterate(r, "stop_long")
        /\ InTradeLocals
        /\ Close(i, StopLevel[1], StopLevel[1] - entry_price)
        /\ closed_by' = Append(closed_by, "stop")
        /\ in_trade' = FALSE
        /\ UNCHANGED <<entry_idx, entry_price, direction>>

\* mutant: the exit row of a stopped Short is its entry row
StopShortAtEntryBar ==
    /\ pc = "loop"
    /\ i < N
    /\ \E r \in Rows(i) :
        /\ Iterate(r, "stop_short")
        /\ InTradeLocals
        /\ Close(entry_idx, StopLevel[1], entry_price - StopLevel[1])
        /\ closed_by' = Append(closed_by, "stop")
        /\ in_trade' = FALSE
        /\ UNCHANGED <<entry_idx, entry_price, direction>>

StopShort ==
    /\ pc = "loop"
    /\ i < N
    /\ \E r \in Rows(i) :
        /\ Iterate(r, "stop_short")
        /\ InTradeLocals
        /\ Close(i, StopLevel[1], entry_price - StopLevel[1])
        /\ closed_by' = Append(closed_by, "stop")
        /\ in_trade' = FALSE
        /\ UNCHANGED <<entry_idx, entry_price, direction>>

TargetLong ==
    /\ pc = "loop"
    /\ i < N
    /\ \E r \in Rows(i) :
        /\ Iterate(r, "target_long")
        /\ InTradeLocals
        /\ Close(i, Target(StopLevel)[1], Target(StopLevel)[1] - entry_price)
        /\ closed_by' = Append(closed_by, "target")
        /\ in_trade' = FALSE
        /\ UNCHANGED <<entry_idx, entry_price, direction>>

TargetShort ==
    /\ pc = "loop"
    /\ i < N
    /\ \E r \in Rows(i) :
        /\ Iterate(r, "target_short")
        /\ InTradeLocals
        /\ Close(i, Target(StopLevel)[1], entry_price - Target(StopLevel)[1])
        /\ closed_by' = Append(closed_by, "target")
        /\ in_trade' = FALSE
        /\ UNCHANGED <<entry_idx, entry_price, direction>>

Hold ==
    /\ pc = "loop"
    /\ i < N
    /\ \E r \in Rows(i) :
        /\ Iterate(r, "hold")
        /\ InTradeLocals
        /\ UNCHANGED <<trades, equity, closed_by, in_trade, entry_idx, entry_price,
                       direction>>

\* mutant: the forced close takes the row before the last one
ForceClosePrevBar ==
    /\ pc = "loop"
    /\ i >= N
    /\ in_trade
    /\ LET exit_idx == N - 2
           exit_price == close[exit_idx]
           points == IF direction = "long" THEN exit_price - entry_price
                                           ELSE entry_price - exit_price
       IN  Close(exit_idx, exit_price, points)
    /\ closed_by' = Append(closed_by, "forced")
    /\ branch' = "forced"
    /\ pc' = "summary"
    /\ UNCHANGED <<inputs, i, bar, in_trade, entry_idx, entry_price, direction, sl, tgt,
                   results, results_list, trades_by_rr, opened>>

\* lines 1320-1333: "If still in trade at the end, close at last price"
ForceClose ==
    /\ pc = "loop"
    /\ i >= N
    /\ in_trade
    /\ LET exit_idx == N - 1
           exit_price == close[exit_idx]
           points == IF direction = "long" THEN exit_price - entry_price
                                           ELSE entry_price - exit_price
       IN  Close(exit_idx, exit_price, points)
    /\ closed_by' = Append(closed_by, "forced")
    /\ branch' = "forced"
    /\ pc' = "summary"
    /\ UNCHANGED <<inputs, i, bar, in_trade, entry_idx, entry_price, direction, sl, tgt,
                   results, results_list, trades_by_rr, opened>>

\* mutant: the loop may end with the position still open and unrecorded
LoopExitInTrade ==
    /\ pc = "loop"
    /\ i >= N
    /\ pc' = "summary"
    /\ UNCHANGED <<inputs, i, bar, branch, trades, in_trade, entry_idx, entry_price,
                   direction, equity, closed_by, sl, tgt, results, results_list,
                   trades_by_rr, opened>>

\* line 1320 with no position open: the summary follows the loop directly
LoopExit ==
    /\ pc = "loop"
    /\ i >= N
    /\ ~in_trade
    /\ pc' = "summary"
    /\ UNCHANGED <<inputs, i, bar, branch, trades, in_trade, entry_idx, entry_price,
                   direction, equity, closed_by, sl, tgt, results, results_list,
                   trades_by_rr, opened>>

\* ------------------------------------------------------------ the summary
RECURSIVE SumPoints(_)
SumPoints(ts) == IF ts = <<>> THEN 0 ELSE SumPoints(SubSeq(ts, 1, Len(ts) - 1)) + Last(ts).points

\* mutant: the drawdown is measured from the highest value of the whole curve
DrawdownScanGlobalPeak(eq, k) ==
    LET top == CHOOSE x \in {eq[j] : j \in DOMAIN eq} : \A j \in DOMAIN eq : eq[j] <= x
        low == CHOOSE x \in {eq[j] : j \in DOMAIN eq} : \A j \in DOMAIN eq : eq[j] >= x
    IN  <<top, top - low>>

\* mutant: the peak stays at the first value of the curve
RECURSIVE DrawdownScanFixedPeak(_, _)
DrawdownScanFixedPeak(eq, k) ==
    IF k = 0 THEN <<eq[1], 0>>
    ELSE LET prev == DrawdownScanFixedPeak(eq, k - 1)
             dd == prev[1] - eq[k]
         IN  <<prev[1], IF dd > prev[2] THEN dd ELSE prev[2]>>

\* the loop of lines 1341-1348 over equity_curve[1..k], as <<peak, max_dd>>
RECURSIVE DrawdownScan(_, _)
DrawdownScan(eq, k) ==
    IF k = 0 THEN <<eq[1], 0>>
    ELSE LET prev == DrawdownScan(eq, k - 1)
             peak == IF eq[k] > prev[1] THEN eq[k] ELSE prev[1]
             dd == peak - eq[k]
         IN  <<peak, IF dd > prev[2] THEN dd ELSE prev[2]>>

\* a / b (b > 0) rounded to the nearest integer, a tie going to the even one: what
\* the format ".2f" does to a value that is a / b hundredths
RoundHalfEven(a, b) ==
    LET q == a \div b
        r == a - q * b
    IN  IF 2 * r < b THEN q
        ELSE IF 2 * r > b THEN q + 1
        ELSE IF q % 2 = 0 THEN q ELSE q + 1

\* mutant: a break-even trade counts as a win
win_tradesBreakEven(ts) == {k \in DOMAIN ts : ts[k].points >= 0}

\* win_trades = [t for t in trades if t['points'] > 0], as positions in the list
win_trades(ts) == {k \in DOMAIN ts : ts[k].points > 0}

\* mutant: a break-even trade is in neither list
loss_tradesStrict(ts) == {k \in DOMAIN ts : ts[k].points < 0}

\* loss_trades = [t for t in trades if t['points'] <= 0]
loss_trades(ts) == {k \in DOMAIN ts : ts[k].points <= 0}

\* the text f"{x:.2f}%" or '0%' as the number of hundredths it shows and the
\* number of decimals it is written with
win_rate(ts) ==
    IF ts # <<>>
    THEN [hundredths |-> RoundHalfEven(Cardinality(win_trades(ts)) * 10000, Len(ts)),
          decimals |-> 2]
    ELSE [hundredths |-> 0, decimals |-> 0]

\* mutant: the sum of the points instead of their mean
expectancySum(ts) == RoundHalfEven(100 * SumPoints(ts), Unit)

\* the text f"{mean:.2f}" as the number of hundredths of a price unit it shows;
\* a price unit is Unit ticks
expectancy(ts) ==
    IF ts # <<>> THEN RoundHalfEven(100 * SumPoints(ts), Unit * Len(ts))
    ELSE 0

\* the row of lines 1349-1358 for the trades and the equity curve of one run
SummaryRow(rr, ts, eq) ==
    [rr |-> rr,
     win_rate |-> win_rate(ts),
     expectancy |-> expectancy(ts),
     max_dd |-> DrawdownScan(eq, Len(eq))[2],
     total_points |-> SumPoints(ts),
     number_of_trades |-> Len(ts),
     winning_trades |-> Cardinality(win_trades(ts)),
     losing_trades |-> Cardinality(loss_trades(ts))]

Summarise ==
    /\ pc = "summary"
    /\ pc' = "done"
    /\ results' = SummaryRow(rr_ratio, trades, equity)
    /\ results_list' = Append(results_list, SummaryRow(rr_ratio, trades, equity))
    /\ trades_by_rr' = (rr_ratio :> trades) @@ trades_by_rr
    /\ UNCHANGED <<inputs, i, bar, branch, trades, in_trade, entry_idx, entry_price,
                   direction, equity, closed_by, sl, tgt, opened>>

Next ==
    \/ Entry
    \/ Skip
    \/ Flip
    \/ StopLong
    \/ StopShort
    \/ TargetLong
    \/ TargetShort
    \/ Hold
    \/ ForceClose
    \/ LoopExit
    \/ Summarise

Spec == Init /\ [][Next]_vars

\* the state before the bar loop of a run over one of the shorter series
InitFair == Init /\ N <= MaxBarsFair

\* the function runs on one thread and no statement of lines 1220-1358 waits for
\* anything: whenever a step is possible, one is taken (every step moves the loop
\* index or the position in the function)
SpecFair == InitFair /\ [][Next]_vars /\ WF_<<pc, i>>(Next)

\* ---------------------------------------------------------------- the sweep
\* the open/high/low columns rows 0..n-1 can hold, given the close column
RECURSIVE RowSeries(_, _)
RowSeries(c, n) ==
    IF n = 0 THEN {<<>>}
    ELSE LET last == IF n - 1 < FirstIndex
                     THEN {[open |-> c[n - 1], high |-> c[n - 1], low |-> c[n - 1]]}
                     ELSE RowsOf(c, n - 1)
         IN  {f @@ ((n - 1) :> r) : f \in RowSeries(c, n - 1), r \in last}

\* the state before the bar loop of the first configuration of a sweep, for the
\* indicators whose backtest needs no code outside this file; the first row's
\* open, high and low, which no iteration reads, are those of a flat bar
InitSweep ==
    /\ indicator \in {"SMA", "MACD"}
    /\ period = MaxPeriod
    /\ rr_ratio = rr_values[1]
    /\ \E n \in 0..MaxBarsSweep : close \in [0..(n - 1) -> Prices]
    /\ df_rows \in RowSeries(close, N)
    /\ ind = IF indicator = "SMA" THEN sma(close, period)
                                  ELSE [k \in DOMAIN close |-> NaN]
    /\ i = FirstIndex
    /\ pc = "loop"
    /\ bar = <<>>
    /\ branch = None
    /\ trades = <<>>
    /\ in_trade = FALSE
    /\ entry_idx = None
    /\ entry_price = None
    /\ direction = None
    /\ equity = <<0>>
    /\ closed_by = <<>>
    /\ sl = NaN
    /\ tgt = NaN
    /\ results = <<>>
    /\ results_list = <<>>
    /\ trades_by_rr = <<>>
    /\ opened = 0

\* the position of the current risk-reward value in rr_values
RrIndex == CHOOSE k \in DOMAIN rr_values : rr_values[k] = rr_ratio

\* mutant: the position flag and the entry survive from one configuration to the next
NextConfigKeepsPosition ==
    /\ pc = "done"
    /\ RrIndex < Len(rr_values)
    /\ rr_ratio' = rr_values[RrIndex + 1]
    /\ trades' = <<>>
    /\ equity' = <<0>>
    /\ closed_by' = <<>>
    /\ i' = FirstIndex
    /\ pc' = "loop"
    /\ opened' = 0
    /\ UNCHANGED <<indicator, period, close, ind, df_rows, bar, branch, sl, tgt, results,
                   results_list, trades_by_rr, in_trade, entry_idx, entry_price,
                   direction>>

\* lines 1178-1218: the next risk-reward value; df_bt and its indicator and signal
\* columns are derived again from full_df, and the run's locals are reset
NextConfig ==
    /\ pc = "done"
    /\ RrIndex < Len(rr_values)
    /\ rr_ratio' = rr_values[RrIndex + 1]
    /\ trades' = <<>>
    /\ in_trade' = FALSE
    /\ entry_idx' = None
    /\ entry_price' = None
    /\ direction' = None
    /\ equity' = <<0>>
    /\ closed_by' = <<>>
    /\ i' = FirstIndex
    /\ pc' = "loop"
    /\ opened' = 0
    /\ UNCHANGED <<indicator, period, close, ind, df_rows, bar, branch, sl, tgt, results,
                   results_list, trades_by_rr>>

\* line 1221 with the MACD selected: no branch of lines 1181-1211 has bound
\* signal_column, the read raises, and the handler of line 1389 ends the function
Abort ==
    /\ pc = "loop"
    /\ i < N
    /\ indicator = "MACD"
    /\ pc' = "error"
    /\ UNCHANGED <<inputs, i, bar, branch, trades, in_trade, entry_idx, entry_price,
                   direction, equity, closed_by, sl, tgt, results, results_list,
                   trades_by_rr, opened>>

NextSweep ==
    \/ Next
    \/ NextConfig
    \/ Abort

SpecSweep == InitSweep /\ [][NextSweep]_vars

SpecEma == InitEma /\ [][Next]_vars

\* ============================================================== properties
\* the step about to be taken is iteration i of the bar loop
LoopStep == pc = "loop" /\ i < N

\* exactly one trade is appended to the trade list
Appended ==
    /\ Len(trades') = Len(trades) + 1
    /\ SubSeq(trades', 1, Len(trades)) = trades

NewTrade == trades'[Len(trades')]

\* a firing signal opposite to the open position's direction
OppositeFires ==
    \/ direction = "long" /\ cross(i) = "Bearish"
    \/ direction = "short" /\ cross(i) = "Bullish"

\* the open position's stop_level: the indicator value at its entry bar
stop_level == ind[entry_idx]

StopCondition(r) ==
    \/ direction = "long" /\ Le(r.low, stop_level)
    \/ direction = "short" /\ Ge(r.high, stop_level)

\* entry_price + rr * (entry_price - stop_level) for Long,
\* entry_price - rr * (stop_level - entry_price) for Short
ClaimTarget ==
    IF direction = "long"
    THEN entry_price + (Twice(rr_ratio) * (entry_price - stop_level[1])) \div 2
    ELSE entry_price - (Twice(rr_ratio) * (stop_level[1] - entry_price)) \div 2

TargetCondition(r) ==
    /\ rr_ratio # Until
    /\ stop_level # NaN
    /\ \/ direction = "long" /\ r.high >= ClaimTarget
       \/ direction = "short" /\ r.low <= ClaimTarget

\* C1: in one iteration with an open position at most one trade is closed, chosen
\* by the priority Flip > Stop-loss > Target: an opposite firing signal closes at
\* bar.open whatever the stop and target; without a flip a breached stop closes at
\* stop_level even if the target is reached too; the target closes only otherwise.
C1_ExitPriority ==
    [][(LoopStep /\ in_trade) =>
          /\ Len(trades') <= Len(trades) + 1
          /\ OppositeFires =>
                Appended /\ NewTrade.exit_price = bar'.open
          /\ (~OppositeFires /\ StopCondition(bar')) =>
                Appended /\ NewTrade.exit_price = stop_level[1]
          /\ (~OppositeFires /\ ~StopCondition(bar') /\ TargetCondition(bar')) =>
                Appended /\ NewTrade.exit_price = ClaimTarget
          /\ (~OppositeFires /\ ~StopCondition(bar') /\ ~TargetCondition(bar')) =>
                trades' = trades]_vars

\* a Long stopped out at stop_level in a bar that also reached a target above entry
C1_Witness ==
    /\ branch = "stop_long"
    /\ rr_ratio # Until
    /\ Le(bar.low, sl)
    /\ Ge(bar.high, tgt)
    /\ tgt[1] > entry_price
    /\ Last(trades).exit_price = sl[1]
    /\ Last(trades).points < 0

\* C2: at most one position is open: the recorded trades do not overlap in time,
\* the open position starts no earlier than the last trade ended, and a position is
\* opened only from Flat or in the step that closes the previous one (a Flip).
NoOverlap ==
    /\ \A k \in 1..(Len(trades) - 1) : trades[k].exit_time <= trades[k + 1].entry_time
    /\ (pc = "loop" /\ in_trade /\ trades # <<>>) =>
            Last(trades).exit_time <= datetime(entry_idx)

Opened == in_trade' /\ (~in_trade \/ entry_idx' # entry_idx)

C2_OnePosition ==
    /\ []NoOverlap
    /\ [][Opened =>
            \/ ~in_trade
            \/ /\ Appended
               /\ NewTrade.entry_time = datetime(entry_idx)
               /\ NewTrade.exit_time = datetime(entry_idx')]_vars

\* a trade closed by a Flip, the position the Flip opened closed by the stop, and
\* no position open afterwards
C2_Witness ==
    /\ closed_by = <<"flip", "stop">>
    /\ trades[1].exit_time = trades[2].entry_time
    /\ trades[2].entry_time < trades[2].exit_time
    /\ ~in_trade

\* C3: without a flip, a Long whose bar.low <= stop_level (a Short whose bar.high >=
\* stop_level) is closed by the stop rule at exactly stop_level and the machine is
\* Flat; and the stop rule closes a trade in no other case.
C3_StopLoss ==
    [][/\ (LoopStep /\ in_trade /\ ~OppositeFires /\ StopCondition(bar')) =>
            /\ Appended
            /\ NewTrade.exit_price = stop_level[1]
            /\ closed_by' = Append(closed_by, "stop")
            /\ ~in_trade'
       /\ (closed_by' # closed_by /\ Last(closed_by') = "stop") =>
            LoopStep /\ in_trade /\ ~OppositeFires /\ StopCondition(bar')]_vars

\* a Long stopped by a bar that traded below the stop and opened elsewhere
C3_Witness ==
    /\ branch = "stop_long"
    /\ bar.low < sl[1]
    /\ bar.open # sl[1]
    /\ Last(trades).exit_price = sl[1]
    /\ ~in_trade

\* C4: with a numeric risk_reward the target is entry_price + rr * (entry_price -
\* stop_level) for Long and entry_price - rr * (stop_level - entry_price) for Short;
\* with no flip and no stop, a bar reaching it closes the trade at exactly the
\* target and the machine is Flat; the target rule closes a trade in no other case.
C4_Target ==
    [][/\ (LoopStep /\ in_trade /\ rr_ratio # Until) => tgt' = Num(ClaimTarget)
       /\ (LoopStep /\ in_trade /\ ~OppositeFires /\ ~StopCondition(bar')
              /\ TargetCondition(bar')) =>
            /\ Appended
            /\ NewTrade.exit_price = ClaimTarget
            /\ closed_by' = Append(closed_by, "target")
            /\ ~in_trade'
       /\ (closed_by' # closed_by /\ Last(closed_by') = "target") =>
            /\ LoopStep /\ in_trade /\ ~OppositeFires
            /\ ~StopCondition(bar') /\ TargetCondition(bar')]_vars

\* the scenario of the specification, in proportion: R:R 2.0, one winning Long
\* closed at the target, points twice the entry-to-stop distance, equity [0, points]
C4_Witness ==
    /\ branch = "target_long"
    /\ rr_ratio = "2.0"
    /\ Len(trades) = 1
    /\ trades[1].exit_price = tgt[1]
    /\ trades[1].points = 2 * (entry_price - sl[1])
    /\ trades[1].points > 0
    /\ equity = <<0, trades[1].points>>
    /\ ~in_trade

Opposite(d) == IF d = "long" THEN "short" ELSE "long"

\* C5: a Flip closes the old position into exactly one trade at bar.open and opens,
\* in the same bar, the opposite position at the same bar.open; the machine stays
\* non-Flat, and the new position's stop is the flip bar's indicator value.
C5_Flip ==
    [][/\ (LoopStep /\ in_trade /\ OppositeFires) =>
            /\ Appended
            /\ NewTrade.exit_price = bar'.open
            /\ NewTrade.exit_time = datetime(i)
            /\ NewTrade.entry_time = datetime(entry_idx)
            /\ NewTrade.direction = direction
            /\ in_trade'
            /\ direction' = Opposite(direction)
            /\ entry_price' = bar'.open
            /\ datetime(entry_idx') = NewTrade.exit_time
       /\ (LoopStep /\ in_trade /\ branch = "flip") => sl' = ind[i - 1]]_vars

\* after a Flip the new position is held over the next bar with the flip bar's stop
C5_Witness ==
    /\ closed_by = <<"flip">>
    /\ branch = "hold"
    /\ in_trade
    /\ i = entry_idx + 2
    /\ sl = ind[entry_idx]
    /\ trades[1].exit_time = datetime(entry_idx)
    /\ trades[1].exit_price = entry_price
    /\ trades[1].direction = Opposite(direction)

\* C6: with the hold-until-flip sentinel the target rule never applies: every trade
\* of the run is closed by a Flip, a Stop-loss or the forced close, and no iteration
\* takes a target branch.
C6_HoldUntilFlip ==
    rr_ratio = Until =>
        /\ \A k \in DOMAIN closed_by : closed_by[k] \in {"flip", "stop", "forced"}
        /\ branch \notin {"target_long", "target_short"}

\* a Long held through a bar whose high reached the value the target variable holds
C6_Witness ==
    /\ rr_ratio = Until
    /\ branch = "hold"
    /\ in_trade
    /\ direction = "long"
    /\ tgt = Num(entry_price)
    /\ Ge(bar.high, tgt)
    /\ trades = <<>>

\* C7: while a position is open its stop_level and target do not move: every
\* iteration uses the indicator value at the entry index, successive iterations on
\* the same position see the same sl and tgt, and entry_price and direction stay.
C7_FixedLevels ==
    [][(LoopStep /\ in_trade) =>
          /\ sl' = ind[entry_idx]
          /\ (i > entry_idx + 1) => (sl' = sl /\ tgt' = tgt)
          /\ (entry_idx' = entry_idx) =>
                (entry_price' = entry_price /\ direction' = direction)]_vars

\* a position held over two bars while the indicator itself moved
C7_Witness ==
    /\ branch = "hold"
    /\ in_trade
    /\ i = entry_idx + 3
    /\ ind[i - 1] # ind[entry_idx]
    /\ ind[i - 2] # ind[entry_idx]
    /\ sl = ind[entry_idx]

\* C8: a position still open after the last bar is force-closed: the last trade has
\* the last bar's timestamp and close as exit, with one equity point appended for
\* it; a run that ends Flat records no forced close.
C8_ForcedClose ==
    pc # "loop" =>
        IF in_trade
        THEN /\ trades # <<>>
             /\ Last(closed_by) = "forced"
             /\ \A k \in 1..(Len(closed_by) - 1) : closed_by[k] # "forced"
             /\ Last(trades).exit_time = datetime(N - 1)
             /\ Last(trades).exit_price = close[N - 1]
             /\ Last(trades).entry_time = datetime(entry_idx)
             /\ Len(equity) = Len(trades) + 1
             /\ Last(equity) = equity[Len(equity) - 1] + Last(trades).points
        ELSE \A k \in DOMAIN closed_by : closed_by[k] # "forced"

\* a finished run whose last position was closed at a last close that differs from
\* the close before it and from the entry price
C8_Witness ==
    /\ pc = "done"
    /\ closed_by = <<"flip", "forced">>
    /\ trades[2].exit_price = close[N - 1]
    /\ close[N - 1] # close[N - 2]
    /\ trades[2].points # 0
    /\ trades[2].entry_time < trades[2].exit_time

RECURSIVE PointsOfFirst(_)
PointsOfFirst(k) == IF k = 0 THEN 0 ELSE PointsOfFirst(k - 1) + trades[k].points

\* C9: the equity curve starts with 0, has one more entry than the trade list, its
\* k-th entry after the first is the sum of the points of the first k trades, and
\* the reported cumulative PnL of a finished run is the last equity value.
C9_EquityCurve ==
    /\ equity[1] = 0
    /\ Len(equity) = Len(trades) + 1
    /\ \A k \in 1..Len(trades) : equity[k + 1] = PointsOfFirst(k)
    /\ pc = "done" => results.total_points = Last(equity)

\* a finished run of two trades with non-zero points
C9_Witness ==
    /\ pc = "done"
    /\ Len(trades) = 2
    /\ trades[1].points # 0
    /\ trades[2].points # 0
    /\ equity = <<0, trades[1].points, trades[1].points + trades[2].points>>
    /\ results.total_points = equity[3]

\* C10: every trade has exit_time >= entry_time; entry times do not decrease and
\* each trade starts no earlier than the previous one ended; the trade after one
\* closed by a Flip starts at that trade's exit_time.
C10_TradeOrder ==
    /\ \A k \in DOMAIN trades : trades[k].exit_time >= trades[k].entry_time
    /\ \A k \in 1..(Len(trades) - 1) :
          /\ trades[k + 1].entry_time >= trades[k].entry_time
          /\ trades[k + 1].entry_time >= trades[k].exit_time
          /\ closed_by[k] = "flip" => trades[k + 1].entry_time = trades[k].exit_time

\* two Flips in a row, the last position opened on the last bar and closed there
C10_Witness ==
    /\ closed_by = <<"flip", "flip", "forced">>
    /\ trades[2].entry_time = trades[1].exit_time
    /\ trades[3].entry_time = trades[2].exit_time
    /\ trades[3].exit_time = trades[3].entry_time
    /\ trades[1].entry_time < trades[1].exit_time

\* ------------------------------------------------------------------- C11
\* the running peak of the equity curve at position k: its highest value so far
PeakAt(k) == CHOOSE x \in {equity[j] : j \in 1..k} : \A j \in 1..k : equity[j] <= x

\* the fall of the curve at position k below its running peak
FallAt(k) == PeakAt(k) - equity[k]

\* the positions where the fall is the largest of the curve
MaxFallPoints == {k \in DOMAIN equity : \A j \in DOMAIN equity : FallAt(j) <= FallAt(k)}

MinEquity == CHOOSE x \in {equity[j] : j \in DOMAIN equity} : \A j \in DOMAIN equity : x <= equity[j]

\* C11 as stated: max_drawdown is at most the running peak of the equity curve at
\* the point where the maximum drawdown occurs
C11_DrawdownAtMostPeak ==
    pc = "done" => \A k \in MaxFallPoints : results.max_dd <= PeakAt(k)

\* C11: max_drawdown is at most the running peak at the point of the maximum
\* drawdown minus the lowest value of the curve; it is at most that peak when the
\* equity there is not negative, and exceeds it when the equity there is negative
C11_DrawdownBound ==
    pc = "done" =>
        \A k \in MaxFallPoints :
            /\ results.max_dd <= PeakAt(k) - MinEquity
            /\ equity[k] >= 0 => results.max_dd <= PeakAt(k)
            /\ equity[k] < 0 => results.max_dd > PeakAt(k)

\* a run whose curve rose above 0 and then fell below 0
C11_Witness ==
    /\ pc = "done"
    /\ \E k \in MaxFallPoints : PeakAt(k) > 0 /\ equity[k] < 0 /\ results.max_dd > PeakAt(k)

\* ------------------------------------------------------------------- C12
MaxFall == CHOOSE x \in {FallAt(k) : k \in DOMAIN equity} : \A k \in DOMAIN equity : FallAt(k) <= x

NeverFalls == \A j, k \in DOMAIN equity : j < k => equity[j] <= equity[k]

\* C12: max_drawdown is the largest fall of the equity curve below its running peak
\* (the peak starting at the first value, 0); it is never negative, and it is 0
\* when the curve never falls below an earlier value
C12_MaxDrawdown ==
    pc = "done" =>
        /\ equity[1] = 0
        /\ results.max_dd = MaxFall
        /\ results.max_dd >= 0
        /\ NeverFalls => results.max_dd = 0

\* a run whose curve fell from a peak it had climbed to
C12_Witness ==
    /\ pc = "done"
    /\ \E k \in DOMAIN equity :
           /\ k > 1
           /\ PeakAt(k) > 0
           /\ equity[k] < PeakAt(k)
           /\ results.max_dd = PeakAt(k) - equity[k]

\* ------------------------------------------------------------------- C13
Defined(k) == ind[k] # NaN

Above(k) == Defined(k) /\ close[k] > ind[k][1]

Below(k) == Defined(k) /\ close[k] < ind[k][1]

Equal(k) == Defined(k) /\ close[k] = ind[k][1]

\* C13 as stated: Bullish above the indicator, Bearish below it, and a bar whose
\* close equals the indicator keeps the classification of the bar before it, so
\* that no signal fires on it
C13_CarryForward ==
    \A k \in DOMAIN close :
        /\ Above(k) => signal(k) = "Bullish"
        /\ Below(k) => signal(k) = "Bearish"
        /\ Equal(k) /\ k > 0 => signal(k) = signal(k - 1) /\ cross(k) = None

\* C13: Bullish above the indicator, Bearish below it, and a bar whose close
\* equals the indicator is Bearish whatever the bar before it was, so that an
\* equality bar after a Bullish bar fires a Bearish signal
C13_EqualityIsBearish ==
    \A k \in DOMAIN close :
        /\ Above(k) => signal(k) = "Bullish"
        /\ Below(k) => signal(k) = "Bearish"
        /\ Equal(k) => signal(k) = "Bearish"
        /\ Equal(k) /\ k > 0 /\ Above(k - 1) => cross(k) = "Bearish"

\* a Long was flipped by a bar whose close equals the indicator
C13_Witness ==
    /\ pc = "loop"
    /\ branch = "flip"
    /\ direction = "short"
    /\ i >= 2
    /\ Equal(i - 1)
    /\ Above(i - 2)

\* ------------------------------------------------------------------- C15
OppositeSignal(s) == IF s = "Bullish" THEN "Bearish" ELSE "Bullish"

Fires(k) == cross(k) \in {"Bullish", "Bearish"}

\* C15: after the first bar a signal fires only at a bar classified differently
\* from the bar before it, and it is that bar's classification; a bar classified
\* as the bar before it fires nothing; two fires of the same direction have a fire
\* of the opposite direction between them
C15_FiresOnChange ==
    /\ \A k \in DOMAIN close :
           k >= 1 => /\ Fires(k) => cross(k) = signal(k) /\ signal(k) # signal(k - 1)
                     /\ signal(k) = signal(k - 1) => cross(k) = None
    /\ \A j, k \in DOMAIN close :
           j < k /\ Fires(j) /\ cross(j) = cross(k) =>
               \E n \in DOMAIN close : j < n /\ n < k /\ cross(n) = OppositeSignal(cross(k))

\* a finished run over bars with two Bullish fires after the first bar, a Bearish
\* fire between them, and a bar that repeats its predecessor's classification
C15_Witness ==
    /\ pc = "done"
    /\ \E j, n, k \in DOMAIN close :
           /\ 1 <= j /\ j < n /\ n < k
           /\ cross(j) = "Bullish" /\ cross(n) = "Bearish" /\ cross(k) = "Bullish"
    /\ \E k \in DOMAIN close : k >= 1 /\ signal(k) = signal(k - 1)

\* ------------------------------------------------------------------- C17
\* C17: an iteration that starts Flat opens a position exactly when its bar fires a
\* signal: at that bar's open, Long for Bullish and Short for Bearish, closing
\* nothing; the first bar is never iterated, so no position and no trade is entered
\* at the first bar although the first bar always counts as a signal change
C17_EntryFromFlat ==
    /\ [][(LoopStep /\ ~in_trade) =>
             /\ i >= 1
             /\ in_trade' <=> Fires(i)
             /\ in_trade' =>
                   /\ entry_idx' = i
                   /\ entry_price' = bar'.open
                   /\ cross(i) = "Bullish" => direction' = "long"
                   /\ cross(i) = "Bearish" => direction' = "short"
                   /\ trades' = trades]_vars
    /\ [](in_trade => entry_idx # 0)
    /\ [](\A k \in DOMAIN trades : trades[k].entry_time # datetime(0))

\* after a first bar that fired, a Flat bar fired nothing and the next one opened
\* a Long that was later closed into a trade
C17_Witness ==
    /\ N >= 3
    /\ Fires(0)
    /\ ~Fires(1)
    /\ cross(2) = "Bullish"
    /\ Len(trades) >= 1
    /\ trades[1].entry_time = datetime(2)
    /\ trades[1].direction = "long"

\* ------------------------------------------------------------------- C20
\* the open position's stop_level is its entry price, under a numeric risk_reward
DegenerateStop == in_trade /\ rr_ratio # Until /\ stop_level = Num(entry_price)

\* the bar reaches the entry price on the position's favourable side
Favourable(r) ==
    \/ direction = "long" /\ r.high >= entry_price
    \/ direction = "short" /\ r.low <= entry_price

\* C20 as stated: with stop_level = entry_price and a numeric risk_reward the
\* target is entry_price, and on the bar after the entry the Target exit closes the
\* position whenever that bar is favourable and no flip fires
C20_TargetOnNextBar ==
    [][(LoopStep /\ DegenerateStop /\ i = entry_idx + 1 /\ ~OppositeFires
           /\ Favourable(bar')) =>
          /\ tgt' = Num(entry_price)
          /\ Appended
          /\ closed_by' = Append(closed_by, "target")]_vars

\* C20: with stop_level = entry_price and a numeric risk_reward the target is
\* entry_price, and on the bar after the entry, if no flip fires, the position is
\* closed at entry_price with 0 points: by the Stop-loss rule, which is checked
\* first, when the bar touches entry_price on the adverse side (low <= entry_price
\* for Long, high >= entry_price for Short), and by the Target rule otherwise
C20_DegenerateStop ==
    [][(LoopStep /\ DegenerateStop /\ i = entry_idx + 1 /\ ~OppositeFires) =>
          /\ tgt' = Num(entry_price)
          /\ Favourable(bar')
          /\ Appended
          /\ NewTrade.exit_price = entry_price
          /\ NewTrade.points = 0
          /\ ~in_trade'
          /\ StopCondition(bar') => closed_by' = Append(closed_by, "stop")
          /\ ~StopCondition(bar') => closed_by' = Append(closed_by, "target")]_vars

\* a Short entered at its stop level was closed on the next bar by the stop rule,
\* on a bar whose low had reached the target
C20_Witness ==
    /\ branch = "stop_short"
    /\ rr_ratio # Until
    /\ i = entry_idx + 2
    /\ sl = Num(entry_price)
    /\ tgt = Num(entry_price)
    /\ bar.low <= entry_price
    /\ Last(trades).points = 0
    /\ Last(closed_by) = "stop"

\* a Short entered at its stop level was closed on the next bar by the target rule
C20_TargetCase ==
    /\ branch = "target_short"
    /\ i = entry_idx + 2
    /\ sl = Num(entry_price)
    /\ tgt = Num(entry_price)
    /\ Last(trades).points = 0

\* ------------------------------------------------------------------- C14
\* no position was opened, by an entry or by a flip, at a bar whose indicator
\* value is undefined
NoEntryAtUndefined ==
    /\ in_trade => Defined(entry_idx)
    /\ \A k \in DOMAIN trades : Defined(trades[k].entry_time)

\* C14: a bar whose indicator value is undefined has no signal (None) and fires
\* nothing, so that no position is opened or flipped at such a bar
C14_UndefinedIsNone ==
    /\ \A k \in DOMAIN close : ~Defined(k) => signal(k) = None /\ ~Fires(k)
    /\ NoEntryAtUndefined

\* ------------------------------------------------------------------- C16
\* fewer than 2 bars, or an indicator undefined at every bar
InsufficientData == N < 2 \/ \A k \in DOMAIN close : ~Defined(k)

\* C16: with fewer than 2 bars, or with an indicator undefined at every bar, the
\* run of every risk_reward value never opens a position, keeps the trade list
\* empty and the equity curve at [0], and ends with a summary row of zero trades
C16_InsufficientData ==
    InsufficientData =>
        /\ pc \in {"loop", "summary", "done"}
        /\ ~in_trade
        /\ trades = <<>>
        /\ equity = <<0>>
        /\ pc = "done" =>
              /\ results.rr = rr_ratio
              /\ results.number_of_trades = 0
              /\ results.total_points = 0
              /\ results.max_dd = 0

\* a finished run over three bars whose indicator never left its warm-up
C16_Witness ==
    /\ pc = "done"
    /\ N = 3
    /\ \A k \in DOMAIN close : ~Defined(k)
    /\ results.number_of_trades = 0
    /\ equity = <<0>>

\* a finished run over a single bar
C16_OneBar ==
    /\ pc = "done"
    /\ N = 1
    /\ results.number_of_trades = 0

\* ------------------------------------------------------------------- C18
\* One configuration run alone, as a function of the bars, the indicator series and
\* the risk-reward value rr: the locals of lines 1213-1218 folded over the rows.
FreshLocals ==
    [trades |-> <<>>, in_trade |-> FALSE, entry_idx |-> None, entry_price |-> None,
     direction |-> None, equity |-> <<0>>]

ClosedAlone(st, exit_idx, exit_price, points) ==
    [st EXCEPT !.trades = Append(@, [entry_time |-> datetime(st.entry_idx),
                                     exit_time |-> datetime(exit_idx),
                                     direction |-> st.direction,
                                     entry_price |-> st.entry_price,
                                     exit_price |-> exit_price,
                                     points |-> points]),
               !.equity = Append(@, Last(@) + points)]

\* lines 1221-1319 for row k
StepAlone(st, k, rr) ==
    LET r == df_rows[k]
        sig == cross(k)
        long == st.direction = "long"
        s == ind[st.entry_idx]
        t == IF s = NaN THEN NaN
             ELSE IF long
                  THEN Num(st.entry_price
                           + ((IF rr # Until THEN Twice(rr) ELSE 0) * (st.entry_price - s[1])) \div 2)
                  ELSE Num(st.entry_price
                           - ((IF rr # Until THEN Twice(rr) ELSE 0) * (s[1] - st.entry_price)) \div 2)
        entered == [st EXCEPT !.in_trade = TRUE, !.entry_idx = k, !.entry_price = r.open,
                             !.direction = IF sig = "Bullish" THEN "long" ELSE "short"]
        flat(x) == [x EXCEPT !.in_trade = FALSE]
    IN  IF ~st.in_trade
        THEN IF sig \in {"Bullish", "Bearish"} THEN entered ELSE st
        ELSE IF (long /\ sig = "Bearish") \/ (~long /\ sig = "Bullish")
        THEN [ClosedAlone(st, k, r.open, IF long THEN r.open - st.entry_price
                                                 ELSE st.entry_price - r.open)
                 EXCEPT !.entry_idx = k, !.entry_price = r.open,
                        !.direction = IF sig = "Bullish" THEN "long" ELSE "short"]
        ELSE IF long /\ Le(r.low, s)
        THEN flat(ClosedAlone(st, k, s[1], s[1] - st.entry_price))
        ELSE IF ~long /\ Ge(r.high, s)
        THEN flat(ClosedAlone(st, k, s[1], st.entry_price - s[1]))
        ELSE IF long /\ rr # Until /\ Ge(r.high, t)
        THEN flat(ClosedAlone(st, k, t[1], t[1] - st.entry_price))
        ELSE IF ~long /\ rr # Until /\ Le(r.low, t)
        THEN flat(ClosedAlone(st, k, t[1], st.entry_price - t[1]))
        ELSE st

\* the locals after the iterations FirstIndex..k
RECURSIVE LoopAlone(_, _)
LoopAlone(k, rr) ==
    IF k < FirstIndex THEN FreshLocals ELSE StepAlone(LoopAlone(k - 1, rr), k, rr)

\* lines 1320-1333 after the loop
RunAlone(rr) ==
    LET st == LoopAlone(N - 1, rr)
        xp == close[N - 1]
    IN  IF st.in_trade
        THEN ClosedAlone(st, N - 1, xp, IF st.direction = "long" THEN xp - st.entry_price
                                                                 ELSE st.entry_price - xp)
        ELSE st

\* C18: in a sweep the trade list and the summary row stored for each risk-reward
\* value are those of that value's run alone from fresh locals on the same bars
\* and indicator series, whatever the configurations before it left behind; being
\* a function of these inputs, they are the same every time the inputs are
C18_NoLeakAcrossConfigs ==
    pc = "done" =>
        /\ Len(results_list) = RrIndex
        /\ DOMAIN trades_by_rr = {rr_values[k] : k \in 1..RrIndex}
        /\ \A k \in 1..RrIndex :
               LET alone == RunAlone(rr_values[k])
               IN  /\ trades_by_rr[rr_values[k]] = alone.trades
                   /\ results_list[k] = SummaryRow(rr_values[k], alone.trades, alone.equity)

\* a finished sweep whose first configuration ended with its position still open
\* (force-closed) and in which two risk-reward values gave different trade lists
C18_Witness ==
    /\ pc = "done"
    /\ Len(results_list) = Len(rr_values)
    /\ in_trade
    /\ trades_by_rr[rr_values[1]] # <<>>
    /\ trades_by_rr[rr_values[1]] # trades_by_rr[Until]

\* ------------------------------------------------------------------- C19
\* C19: a run of a selectable indicator kind over 2 bars or more never aborts: it
\* goes through every configuration of the sweep and leaves a result for each
C19_NeverAborts == pc # "error"

\* ------------------------------------------------------------------- C21
Abs(x) == IF x < 0 THEN -x ELSE x

WinCount == Cardinality({k \in DOMAIN trades : trades[k].points > 0})

\* C21: with zero trades the summary reports win_rate 0 and expectancy 0; with one
\* trade or more win_count is the number of trades with points > 0, win_rate is
\* win_count / trade_count * 100 and expectancy is the mean of the points, each as
\* the summary reports it: to the nearest hundredth
C21_WinRateExpectancy ==
    pc = "done" =>
        /\ trades = <<>> => results.win_rate.hundredths = 0 /\ results.expectancy = 0
        /\ trades # <<>> =>
              /\ results.winning_trades = WinCount
              /\ 2 * Abs(results.win_rate.hundredths * Len(trades) - WinCount * 10000)
                     <= Len(trades)
              /\ (10000 * WinCount) % Len(trades) = 0 =>
                     results.win_rate.hundredths * Len(trades) = WinCount * 10000
              /\ 2 * Abs(results.expectancy * Unit * Len(trades) - 100 * SumPoints(trades))
                     <= Unit * Len(trades)
              /\ (100 * SumPoints(trades)) % (Unit * Len(trades)) = 0 =>
                     results.expectancy * Unit * Len(trades) = 100 * SumPoints(trades)

\* a finished run of three trades, one of them a win: win_rate 33.33
C21_Witness ==
    /\ pc = "done"
    /\ Len(trades) = 3
    /\ WinCount = 1
    /\ results.win_rate = [hundredths |-> 3333, decimals |-> 2]
    /\ results.expectancy # 0

\* a finished run without trades over two bars or more
C21_NoTrades ==
    /\ pc = "done"
    /\ N >= 2
    /\ trades = <<>>
    /\ results.win_rate = [hundredths |-> 0, decimals |-> 0]

\* ------------------------------------------------------------------- C22
\* C22: every recorded trade, whichever rule closed it, has points = exit_price -
\* entry_price when Long and entry_price - exit_price when Short, and its direction,
\* entry_price and entry_time are those of the position that was open before the
\* step that recorded it, not those of a position the same step re-opened
C22_Points ==
    /\ [](\A k \in DOMAIN trades :
             /\ trades[k].direction \in {"long", "short"}
             /\ trades[k].direction = "long" =>
                    trades[k].points = trades[k].exit_price - trades[k].entry_price
             /\ trades[k].direction = "short" =>
                    trades[k].points = trades[k].entry_price - trades[k].exit_price)
    /\ [][trades' # trades =>
             /\ Appended
             /\ NewTrade.direction = direction
             /\ NewTrade.entry_price = entry_price
             /\ NewTrade.entry_time = datetime(entry_idx)]_vars

\* the four rules each closed a trade somewhere, here: a losing Long closed by a
\* flip that re-opened a Short at another price
C22_Witness ==
    /\ branch = "flip"
    /\ direction = "short"
    /\ Last(trades).direction = "long"
    /\ Last(trades).points < 0
    /\ Last(trades).entry_price # entry_price

\* ------------------------------------------------------------------- C23
IsPrefix(s, t) == Len(s) <= Len(t) /\ SubSeq(t, 1, Len(s)) = s

\* C23: within one run every step leaves the trade list and the equity curve as
\* they were or longer by appended entries: the old lists are prefixes of the new
C23_AppendOnly ==
    [][IsPrefix(trades, trades') /\ IsPrefix(equity, equity')]_vars

\* a run that appended three trades
C23_Witness ==
    /\ Len(trades) = 3
    /\ Len(equity) = 4
    /\ equity[2] # equity[3]

\* ------------------------------------------------------------------- C30
\* C30: in the summary row win_count + loss_count = trade_count, a trade being a
\* win when points > 0 and a loss when points <= 0, break-even trades included
C30_WinsPlusLosses ==
    pc = "done" =>
        /\ results.number_of_trades = Len(trades)
        /\ results.winning_trades + results.losing_trades = results.number_of_trades
        /\ results.winning_trades = Cardinality({k \in DOMAIN trades : trades[k].points > 0})
        /\ results.losing_trades =
               Cardinality({k \in DOMAIN trades : trades[k].points < 0})
               + Cardinality({k \in DOMAIN trades : trades[k].points = 0})

\* a summary over a win, a loss and a break-even trade
C30_Witness ==
    /\ pc = "done"
    /\ \E j, k, n \in DOMAIN trades :
           trades[j].points > 0 /\ trades[k].points < 0 /\ trades[n].points = 0
    /\ results.losing_trades = 2

\* ------------------------------------------------------------------- C25
\* C25: a trade closed by the Target rule never has negative points and a trade
\* closed by the Stop-loss rule never has positive points: the stop_level of an
\* open Long is at or below its entry_price and its target at or above it, and
\* the other way round for a Short
C25_StopOnLosingSide ==
    /\ \A k \in DOMAIN trades :
           /\ closed_by[k] = "target" => trades[k].points >= 0
           /\ closed_by[k] = "stop" => trades[k].points <= 0
    /\ (pc = "loop" /\ in_trade /\ stop_level # NaN) =>
           /\ direction = "long" => stop_level[1] <= entry_price
           /\ direction = "short" => stop_level[1] >= entry_price
           /\ (direction = "long" /\ rr_ratio # Until) => ClaimTarget >= entry_price
           /\ (direction = "short" /\ rr_ratio # Until) => ClaimTarget <= entry_price

\* ------------------------------------------------------------------- C26
\* the last bar up to k that fired
LastFire(k) == CHOOSE j \in 0..k : Fires(j) /\ \A n \in (j + 1)..k : ~Fires(n)

\* C26: an open position is Long when the most recent fire was Bullish and Short
\* when it was Bearish; a fire at a bar met with a position open is a Flip;
\* consecutive trades of a run have opposite directions, whichever rule closed
\* the earlier one
C26_DirectionFollowsFire ==
    /\ []((pc = "loop" /\ in_trade) =>
             /\ \E j \in 0..(i - 1) : Fires(j)
             /\ direction = IF cross(LastFire(i - 1)) = "Bullish" THEN "long" ELSE "short")
    /\ []((pc = "loop" /\ in_trade /\ i < N /\ Fires(i)) => OppositeFires)
    /\ [][(LoopStep /\ in_trade /\ Fires(i)) => branch' = "flip"]_vars
    /\ [](\A k \in DOMAIN trades :
             k > 1 => trades[k].direction # trades[k - 1].direction)

\* a trade closed by the stop, the next position opened by a later fire in the
\* opposite direction and closed by a flip
C26_Witness ==
    /\ Len(trades) >= 2
    /\ closed_by[1] = "stop"
    /\ closed_by[2] = "flip"
    /\ trades[1].direction # trades[2].direction
    /\ trades[2].entry_time > trades[1].exit_time

\* ------------------------------------------------------------------- C27
\* C27: the iteration that opens a position, from Flat or by a flip, closes nothing
\* by stop or target; a trade closed by flip, stop or target has exit_time after
\* entry_time; exit_time = entry_time only for a position opened on the last bar
\* and force-closed there
C27_NoExitOnEntryBar ==
    /\ [][(LoopStep /\ in_trade' /\ entry_idx' = i) =>
             /\ branch' \in {"entry", "flip"}
             /\ closed_by' \in {closed_by, Append(closed_by, "flip")}]_vars
    /\ [](\A k \in DOMAIN trades :
             /\ trades[k].exit_time >= trades[k].entry_time
             /\ closed_by[k] \in {"flip", "stop", "target"} =>
                    trades[k].exit_time > trades[k].entry_time
             /\ trades[k].exit_time = trades[k].entry_time =>
                    /\ closed_by[k] = "forced"
                    /\ trades[k].entry_time = datetime(N - 1))

\* the last bar is the exit bar of two trades: the one a flip closed there and the
\* one opened by that flip and force-closed on the same bar
C27_Witness ==
    /\ pc = "done"
    /\ Len(trades) >= 2
    /\ closed_by[Len(trades) - 1] = "flip"
    /\ closed_by[Len(trades)] = "forced"
    /\ trades[Len(trades) - 1].exit_time = datetime(N - 1)
    /\ Last(trades).exit_time = datetime(N - 1)
    /\ Last(trades).entry_time = datetime(N - 1)

\* ------------------------------------------------------------------- C28
\* trade k was entered at its stop level
DegenerateTrade(k) == ind[trades[k].entry_time] = Num(trades[k].entry_price)

ZeroPointExit(k) ==
    /\ closed_by[k] \in {"stop", "target"}
    /\ trades[k].exit_price = trades[k].entry_price
    /\ trades[k].points = 0

\* C28 as stated: with a numeric risk_reward a position whose stop_level equals its
\* entry_price is always closed on the bar after its entry bar: by a flip, or else
\* by stop or target at entry_price with 0 points, and that trade counts as a loss
C28_ClosedOnNextBar ==
    rr_ratio # Until =>
        /\ \A k \in DOMAIN trades :
               DegenerateTrade(k) =>
                   /\ trades[k].exit_time = trades[k].entry_time + 1
                   /\ closed_by[k] = "flip" \/ ZeroPointExit(k)
        /\ pc = "done" =>
               results.losing_trades >= Cardinality({k \in DOMAIN trades : trades[k].points = 0})

\* C28: with a numeric risk_reward a position whose stop_level equals its
\* entry_price is never held over a bar: if a bar follows its entry bar it is closed
\* on that bar, by a flip, or else by stop or target at entry_price with 0 points,
\* which counts as a loss; if its entry bar is the last bar it is force-closed on
\* the entry bar itself at that bar's close
C28_NeverHeld ==
    rr_ratio # Until =>
        /\ (pc = "loop" /\ DegenerateStop) => i = entry_idx + 1
        /\ \A k \in DOMAIN trades :
               DegenerateTrade(k) =>
                   \/ /\ trades[k].exit_time = trades[k].entry_time + 1
                      /\ closed_by[k] = "flip" \/ ZeroPointExit(k)
                   \/ /\ trades[k].entry_time = datetime(N - 1)
                      /\ trades[k].exit_time = trades[k].entry_time
                      /\ closed_by[k] = "forced"
                      /\ trades[k].exit_price = close[N - 1]
        /\ pc = "done" =>
               results.losing_trades >= Cardinality({k \in DOMAIN trades : trades[k].points = 0})

\* a summary counting as a loss the zero-point trade of a position entered at its
\* stop level and closed on the next bar
C28_Witness ==
    /\ pc = "done"
    /\ rr_ratio # Until
    /\ \E k \in DOMAIN trades :
           DegenerateTrade(k) /\ ZeroPointExit(k) /\ closed_by[k] = "target"
    /\ results.losing_trades >= 1

\* ------------------------------------------------------------------- C24
\* the bars from the loop's first index on at which the signal fires, ascending
FireBars == {k \in DOMAIN close : k >= FirstIndex /\ Fires(k)}

RECURSIVE Ascending(_)
Ascending(S) ==
    IF S = {} THEN <<>>
    ELSE LET m == CHOOSE x \in S : \A y \in S : y >= x
         IN  <<m>> \o Ascending(S \ {m})

\* what a trade list says of its entries
EntriesOf(ts) ==
    [k \in DOMAIN ts |-> <<ts[k].entry_time, ts[k].entry_price, ts[k].direction>>]

\* the entries the fires of the series give: one at each fire, at that bar's open
EntriesAtFires ==
    LET bars == Ascending(FireBars)
    IN  [k \in DOMAIN bars |->
            <<datetime(bars[k]), df_rows[bars[k]].open,
              IF cross(bars[k]) = "Bullish" THEN "long" ELSE "short">>]

\* C24: every fire at a bar index >= 1 opens exactly one position, from Flat or by
\* a flip, and nothing else opens one; so every risk-reward value of a sweep ends
\* with as many trades as there are such fires, and with the same sequence of
\* entry_time, entry_price and direction
C24_SameEntries ==
    /\ [][LoopStep => (Fires(i) <=> branch' \in {"entry", "flip"})]_vars
    /\ [](pc = "done" =>
             \A a \in DOMAIN trades_by_rr :
                 /\ Len(trades_by_rr[a]) = Cardinality(FireBars)
                 /\ EntriesOf(trades_by_rr[a]) = EntriesAtFires
                 /\ \A b \in DOMAIN trades_by_rr :
                        EntriesOf(trades_by_rr[a]) = EntriesOf(trades_by_rr[b]))

\* a finished sweep whose first and last configurations entered the same two
\* positions and left the first of them on different bars at different prices
C24_Witness ==
    /\ pc = "done"
    /\ DOMAIN trades_by_rr = {rr_values[k] : k \in DOMAIN rr_values}
    /\ Len(trades_by_rr[Until]) >= 2
    /\ EntriesOf(trades_by_rr[rr_values[1]]) = EntriesOf(trades_by_rr[Until])
    /\ trades_by_rr[rr_values[1]][1].exit_time # trades_by_rr[Until][1].exit_time
    /\ trades_by_rr[rr_values[1]][1].exit_price # trades_by_rr[Until][1].exit_price

\* ------------------------------------------------------------------- C29
\* C29: a run ends; its loop reads the bars from index 1 on, one per iteration in
\* ascending order, and nothing else moves the index; a finished run has recorded
\* one trade for every position it opened, so none is left open
C29_Terminates ==
    /\ <>(pc = "done")
    /\ [][i' # i => (LoopStep /\ i' = i + 1 /\ bar' \in RowsOf(close, i))]_vars
    /\ [](pc \in {"summary", "done"} =>
             /\ i = Max2(N, FirstIndex)
             /\ opened = Len(trades))
    /\ [](pc = "loop" => opened = Len(trades) + (IF in_trade THEN 1 ELSE 0))

\* a finished run over the longest series that opened three positions, the last of
\* them still open when the loop ended and closed after it
C29_Witness ==
    /\ pc = "done"
    /\ N = MaxBarsFair
    /\ i = N
    /\ opened = 3
    /\ Len(trades) = 3
    /\ Last(closed_by) = "forced"

====
